---- MODULE Spec2Model ----
(***************************************************************************)
(* A model of the bit-level codec of bitbuffer-rs: the random-access read  *)
(* buffer (src/src/lib.rs), the typed read traits (src/src/read.rs) and    *)
(* the write stream (src/src/writestream.rs).                              *)
(*                                                                         *)
(* Machine integers are bit vectors: a value of a w-bit type is a sequence *)
(* of w bits, least significant first (element i+1 is bit i).  Shifts,     *)
(* masks and `as` conversions are computed on the bits, with the width of  *)
(* the Rust type they act on.                                              *)
(***************************************************************************)
EXTENDS Integers, Sequences, FiniteSets, TLC

VARIABLES
    usize_size,        \* size_of::<usize>() of the build target, in bytes
    debug_assertions,  \* TRUE: overflow checks panic; FALSE: they wrap
    bytes,             \* BitBuffer.bytes, the physical slice
    byte_len,          \* BitBuffer.byte_len
    pc,                \* "idle" before the call, "done" after it
    op,                \* the method called
    position,          \* its position argument
    count,             \* its count argument
    result,            \* what it returned (or that it panicked)
    loaded,            \* the byte indices of self.bytes the call loaded
    w_bits,            \* the write stream's destination, bit by bit (bit_len = Len)
    w_pc,              \* "new", "idle", "rl_body", "rl_head", "written", "done"
    w_op,              \* the write method called last
    w_arg,             \* its arguments
    w_ret,             \* what it returned
    w_old,             \* the destination before the call
    rl,                \* reserve_length's locals while it runs
    stream,            \* the read stream Vec<T> is read from: its bits and position
    v_pc,              \* "idle", "loop", "ok" (returned Ok(vec)), "err" (returned Err)
    v_arg,             \* the call's size and element type T
    v_vec,             \* vec
    v_i,               \* the loop counter of `for _ in 0..size`
    v_ret,             \* the error returned
    v_reads,           \* history: the element reads made so far
    v_start,           \* history: the stream position when the call began
    v_sub              \* history: the position the last element read left

rvars == <<usize_size, debug_assertions, bytes, byte_len, pc, op, position,
           count, result, loaded>>

wvars == <<w_bits, w_pc, w_op, w_arg, w_ret, w_old, rl>>

vvars == <<stream, v_pc, v_arg, v_vec, v_i, v_ret, v_reads, v_start, v_sub>>

vars == <<rvars, wvars, vvars>>

-----------------------------------------------------------------------------
(* Bounds of the model *)

\* the buffers of the model are rotations 0..MaxSeed of BytePool
MaxSeed == 1
\* the declared byte length of the model's read buffers
MaxByteLen == 9
\* the integers written are the little-endian words of rotations
\* 0..MaxValueSeed of BytePool
MaxValueSeed == 3
\* the byte length of the buffer under a spliced read stream
MaxSrcBytes == 9
\* the most write_int calls a body_fn of the model makes
MaxBodyOps == 3
\* the byte length of the buffer Vec<T> is read from
MaxVecBytes == 3
\* the largest element count of a Vec<T> read
MaxVecSize == 4

-----------------------------------------------------------------------------
(* Bit vectors *)

Zeros(w) == [i \in 1..w |-> 0]
Ones(w) == [i \in 1..w |-> 1]

\* bit i (0 = least significant) of the byte b
ByteBit(b, i) == (b \div (2 ^ i)) % 2

BitAnd(a, b) == [i \in 1..Len(a) |-> IF a[i] = 1 /\ b[i] = 1 THEN 1 ELSE 0]
BitOr(a, b) == [i \in 1..Len(a) |-> IF a[i] = 1 \/ b[i] = 1 THEN 1 ELSE 0]
BitNot(a) == [i \in 1..Len(a) |-> 1 - a[i]]
\* logical shifts inside the width of a, for 0 <= n < Len(a)
Shr(a, n) == [i \in 1..Len(a) |-> IF i + n <= Len(a) THEN a[i + n] ELSE 0]
Shl(a, n) == [i \in 1..Len(a) |-> IF i - n >= 1 THEN a[i - n] ELSE 0]

\* `v as uN` / `v as iN` between integer types: truncation to the low w bits,
\* zero extension of an unsigned value
AsWidth(v, w) == [i \in 1..w |-> IF i <= Len(v) THEN v[i] ELSE 0]

\* The outcome of an expression that may panic.
Ok(v) == [ok |-> TRUE, val |-> v]
Panic == [ok |-> FALSE, val |-> <<>>]

\* usize arithmetic keeps a wrapped value 2^(8*usize_size) + d, d < 0, as d:
\* it is only ever used as a shift amount, which Rust reduces modulo the bit
\* width of the shifted type, a divisor of 2^(8*usize_size).
CheckedSub(a, b, dbg) ==
    IF a < b /\ dbg THEN Panic ELSE Ok(a - b)

\* `a << n` and `a >> n`: a shift amount outside 0..Len(a)-1 panics with
\* overflow checks and is reduced modulo Len(a) without them.
CheckedShl(a, n, dbg) ==
    IF n >= 0 /\ n < Len(a) THEN Ok(Shl(a, n))
    ELSE IF dbg THEN Panic ELSE Ok(Shl(a, n % Len(a)))

CheckedShr(a, n, dbg) ==
    IF n >= 0 /\ n < Len(a) THEN Ok(Shr(a, n))
    ELSE IF dbg THEN Panic ELSE Ok(Shr(a, n % Len(a)))

-----------------------------------------------------------------------------
(* src/src/lib.rs: BitBuffer *)

\* array_ref with the array one element too long and no slice check
array_ref_one_more(arr, offset, len) ==
    [ok |-> TRUE,
     val |-> [k \in 1..len |-> IF offset + k <= Len(arr) THEN arr[offset + k] ELSE 0],
     idx |-> offset .. (offset + len)]

\* array_ref!(arr, offset, len): the slice index arr[offset..offset + len]
\* is bounds checked and panics when offset + len > arr.len(); otherwise the
\* len bytes at offset are loaded through the raw pointer.
array_ref(arr, offset, len) ==
    IF offset + len > Len(arr)
    THEN [ok |-> FALSE, val |-> <<>>, idx |-> {}]
    ELSE [ok |-> TRUE,
          val |-> [k \in 1..len |-> arr[offset + k]],
          idx |-> offset .. (offset + len - 1)]

\* transmute::<[u8; USIZE_SIZE], usize> followed by usize::from_le: byte k of
\* the array holds bits 8k .. 8k+7 of the word.
from_le(arr) ==
    [i \in 1..(8 * Len(arr)) |-> ByteBit(arr[((i - 1) \div 8) + 1], (i - 1) % 8)]

\* BitBuffer::read_usize on a target whose usize has W bytes.
read_usize(W, buf, dbg, pos, cnt) ==
    LET byte_index == pos \div 8
        bit_offset == pos % 8
        ref == array_ref(buf, byte_index, W)
    IN  IF ~ref.ok THEN [ok |-> FALSE, val |-> <<>>, idx |-> {}]
        ELSE LET container == from_le(ref.val)
                 shifted == Shr(container, bit_offset)
                 shl == CheckedShl(Ones(8 * W), cnt, dbg)
             IN  IF ~shl.ok THEN [ok |-> FALSE, val |-> <<>>, idx |-> ref.idx]
                 ELSE [ok |-> TRUE,
                       val |-> BitAnd(shifted, BitNot(shl.val)),
                       idx |-> ref.idx]

\* `x as uN` applied to the outcome of a read
Narrow(r, w) ==
    IF r.ok THEN [ok |-> TRUE, val |-> AsWidth(r.val, w), idx |-> r.idx] ELSE r

read_u8(W, buf, dbg, pos, cnt) == Narrow(read_usize(W, buf, dbg, pos, cnt), 8)

read_u16(W, buf, dbg, pos, cnt) == Narrow(read_usize(W, buf, dbg, pos, cnt), 16)

\* BitBuffer::read_u32: the truncated word read where usize is wider than
\* u32, two 16-bit reads otherwise.
read_u32(W, buf, dbg, pos, cnt) ==
    IF W > 4
    THEN Narrow(read_usize(W, buf, dbg, pos, cnt), 32)
    ELSE LET first == read_u16(W, buf, dbg, pos, cnt)
             sub == CheckedSub(cnt, 16, dbg)
         IN  IF ~first.ok THEN first
             ELSE IF ~sub.ok THEN [ok |-> FALSE, val |-> <<>>, idx |-> first.idx]
             ELSE LET value == Shl(AsWidth(first.val, 32), 16)
                      second == read_u16(W, buf, dbg, pos + 16, sub.val)
                  IN  IF ~second.ok
                      THEN [ok |-> FALSE, val |-> <<>>,
                            idx |-> first.idx \cup second.idx]
                      ELSE [ok |-> TRUE,
                            val |-> BitOr(value, AsWidth(second.val, 32)),
                            idx |-> first.idx \cup second.idx]

\* make_signed!(unsigned, type, count), the type as wide as `unsigned`:
\*   sign_bits = unsigned >> (count - 1) & 1
\*   high_bits = 0 - sign_bits as type
\*   high_bits << count | unsigned as type
make_signed(unsigned, cnt, dbg) ==
    LET w == Len(unsigned)
        sub == CheckedSub(cnt, 1, dbg)
    IN  IF ~sub.ok THEN Panic
        ELSE LET shr == CheckedShr(unsigned, sub.val, dbg)
             IN  IF ~shr.ok THEN Panic
                 ELSE LET sign_bits == shr.val[1]
                          high_bits == IF sign_bits = 1 THEN Ones(w) ELSE Zeros(w)
                          shl == CheckedShl(high_bits, cnt, dbg)
                      IN  IF ~shl.ok THEN Panic
                          ELSE Ok(BitOr(shl.val, unsigned))

Signed(r, cnt, dbg) ==
    IF ~r.ok THEN r
    ELSE LET s == make_signed(r.val, cnt, dbg)
         IN  [ok |-> s.ok, val |-> s.val, idx |-> r.idx]

read_i8(W, buf, dbg, pos, cnt) == Signed(read_u8(W, buf, dbg, pos, cnt), cnt, dbg)

read_i16(W, buf, dbg, pos, cnt) == Signed(read_u16(W, buf, dbg, pos, cnt), cnt, dbg)

read_i32(W, buf, dbg, pos, cnt) == Signed(read_u32(W, buf, dbg, pos, cnt), cnt, dbg)

-----------------------------------------------------------------------------
(* The write stream is not used *)

NoError == [kind |-> "Ok", a |-> 0, b |-> 0]

WriteIdle ==
    /\ w_bits = <<>>
    /\ w_pc = "off"
    /\ w_op = "none"
    /\ w_arg = <<>>
    /\ w_ret = NoError
    /\ w_old = <<>>
    /\ rl = <<>>

VecIdle ==
    /\ stream = [bits |-> <<>>, pos |-> 0]
    /\ v_pc = "off"
    /\ v_arg = <<>>
    /\ v_vec = <<>>
    /\ v_i = 0
    /\ v_ret = NoError
    /\ v_reads = 0
    /\ v_start = 0
    /\ v_sub = 0

-----------------------------------------------------------------------------
(* The read buffers of the model *)

BytePool == <<255, 127, 0, 128, 165, 1, 60, 195, 90, 254, 15>>

\* a physical slice of n bytes
Buffer(seed, n) == [k \in 1..n |-> BytePool[((k - 1 + seed) % Len(BytePool)) + 1]]

\* bit k of the slice in little-endian bit numbering
BufBit(buf, k) == ByteBit(buf[(k \div 8) + 1], k % 8)

\* BitBuffer::from_padded_slice(bytes, byte_len)
bit_len == byte_len * 8

TypeBits(o) ==
    CASE o \in {"read_u8", "read_i8"} -> 8
      [] o \in {"read_u16", "read_i16"} -> 16
      [] o \in {"read_u32", "read_i32"} -> 32
      [] OTHER -> 8 * usize_size

ReadInit ==
    /\ usize_size \in {4, 8}
    /\ debug_assertions \in BOOLEAN
    /\ byte_len = MaxByteLen
    /\ \E seed \in 0..MaxSeed, pad \in {0, usize_size - 1, 7} :
          bytes = Buffer(seed, MaxByteLen + pad)
    /\ pc = "idle"
    /\ op = "none"
    /\ position = 0
    /\ count = 0
    /\ result = Panic
    /\ loaded = {}
    /\ WriteIdle
    /\ VecIdle

Call(name, r, p, c) ==
    /\ pc' = "done"
    /\ op' = name
    /\ position' = p
    /\ count' = c
    /\ result' = [ok |-> r.ok, val |-> r.val]
    /\ loaded' = r.idx
    /\ UNCHANGED <<usize_size, debug_assertions, bytes, byte_len>>
    /\ UNCHANGED <<wvars, vvars>>

ReadUsize ==
    /\ pc = "idle"
    /\ \E p \in 0..(bit_len - 1), c \in 0..(8 * usize_size) :
        Call("read_usize", read_usize(usize_size, bytes, debug_assertions, p, c), p, c)

ReadU8 ==
    /\ pc = "idle"
    /\ \E p \in 0..(bit_len - 1), c \in 0..8 :
        Call("read_u8", read_u8(usize_size, bytes, debug_assertions, p, c), p, c)

ReadU16 ==
    /\ pc = "idle"
    /\ \E p \in 0..(bit_len - 1), c \in 0..16 :
        Call("read_u16", read_u16(usize_size, bytes, debug_assertions, p, c), p, c)

ReadU32 ==
    /\ pc = "idle"
    /\ \E p \in 0..(bit_len - 1), c \in 0..32 :
        Call("read_u32", read_u32(usize_size, bytes, debug_assertions, p, c), p, c)

ReadI8 ==
    /\ pc = "idle"
    /\ \E p \in 0..(bit_len - 1), c \in 0..8 :
        Call("read_i8", read_i8(usize_size, bytes, debug_assertions, p, c), p, c)

ReadI16 ==
    /\ pc = "idle"
    /\ \E p \in 0..(bit_len - 1), c \in 0..16 :
        Call("read_i16", read_i16(usize_size, bytes, debug_assertions, p, c), p, c)

ReadI32 ==
    /\ pc = "idle"
    /\ \E p \in 0..(bit_len - 1), c \in 0..32 :
        Call("read_i32", read_i32(usize_size, bytes, debug_assertions, p, c), p, c)

ReadNext ==
    \/ ReadUsize
    \/ ReadU8
    \/ ReadU16
    \/ ReadU32
    \/ ReadI8
    \/ ReadI16
    \/ ReadI32

SpecRead == ReadInit /\ [][ReadNext]_vars

-----------------------------------------------------------------------------
(* Claims about the read buffer, checked under SpecRead *)

\* the padding from_padded_slice asks of its caller: at least
\* usize_size - 1 bytes of the physical slice lie past byte_len
Padded == Len(bytes) >= byte_len + usize_size - 1

\* the w-bit unsigned integer made of the cnt buffer bits at pos
FieldBits(buf, pos, cnt, w) ==
    [i \in 1..w |-> IF i <= cnt THEN BufBit(buf, pos + i - 1) ELSE 0]

\* the w-bit two's-complement sign extension of the cnt-bit field at pos
SignExtended(buf, pos, cnt, w) ==
    [i \in 1..w |-> IF i <= cnt THEN BufBit(buf, pos + i - 1)
                    ELSE BufBit(buf, pos + cnt - 1)]

\* C1: read_usize(position, count), for a position inside the buffer and any
\* count from 0 to the word's bit width, returns the unsigned integer whose
\* bit i < count is bit position + i of the buffer and whose other bits are 0.
C1_ReadUsizeReturnsField ==
    (pc = "done" /\ op = "read_usize" /\ Padded /\ position + count <= bit_len)
        => /\ result.ok
           /\ result.val = FieldBits(bytes, position, count, 8 * usize_size)

\* C2: a signed read of 1 <= count <= N bits into iN is the two's-complement
\* sign extension of the count-bit field and completes without overflow.
C2_SignedReadSignExtends ==
    (pc = "done" /\ op \in {"read_i8", "read_i16", "read_i32"} /\ Padded
        /\ count >= 1 /\ position + count <= bit_len)
        => /\ result.ok
           /\ result.val = SignExtended(bytes, position, count, TypeBits(op))

\* C8: on a buffer padded as from_padded_slice asks, read_usize at a
\* position below bit_len loads only the usize_size bytes from position / 8
\* on, and every byte it loads lies inside the physical slice.
C8_NoOutOfBounds ==
    (pc = "done" /\ op = "read_usize" /\ Padded /\ position < bit_len)
        => /\ loaded # {}
           /\ loaded \subseteq ((position \div 8) .. ((position \div 8) + usize_size - 1))
           /\ \A k \in loaded : k < Len(bytes)

\* C8 witness: a read in the last declared byte of a buffer with exactly
\* usize_size - 1 bytes of padding loads the last byte of the slice.
C8_Witness ==
    /\ pc = "done" /\ op = "read_usize"
    /\ Len(bytes) = byte_len + usize_size - 1
    /\ position \div 8 = byte_len - 1
    /\ position + count = bit_len
    /\ (Len(bytes) - 1) \in loaded

\* C10: read_u32 on a target with a 32-bit usize (two 16-bit reads) returns,
\* for every position and every count from 0 to 32, what the target with a
\* 64-bit usize returns (the truncated word read), and does not underflow.
C10_ReadU32PathsAgree ==
    (pc = "done" /\ op = "read_u32" /\ usize_size = 4
        /\ Len(bytes) >= byte_len + 7)
        => /\ result.ok
           /\ result.val = read_u32(8, bytes, debug_assertions, position, count).val

-----------------------------------------------------------------------------
(* Numeric adaptation, write buffer and read stream.  crate::num_traits,   *)
(* crate::writebuffer and BitReadStream are not among the sources; they    *)
(* are modelled from the specification (sections 4.2, 4.3 and 4.5).        *)

IntTypes == {"u8", "i8", "u16", "i16", "u32", "i32", "usize"}

IsSigned(t) == t \in {"i8", "i16", "i32"}

\* IntoBytes::into_bytes: the bytes of the value, least significant first
into_bytes(v) ==
    [k \in 1..(Len(v) \div 8) |->
        LET b(j) == v[8 * (k - 1) + j + 1]
        IN  b(0) + 2 * b(1) + 4 * b(2) + 8 * b(3)
              + 16 * b(4) + 32 * b(5) + 64 * b(6) + 128 * b(7)]

\* UncheckedPrimitiveInt::into_usize_unchecked: `self as usize`, which sign
\* extends a signed value and zero extends an unsigned one
into_usize_unchecked(t, v) ==
    [i \in 1..(8 * usize_size) |->
        IF i <= Len(v) THEN v[i] ELSE IF IsSigned(t) THEN v[Len(v)] ELSE 0]

\* the usize holding the small natural number n
UsizeOf(n) ==
    [i \in 1..(8 * usize_size) |-> IF i <= 30 THEN (n \div (2 ^ (i - 1))) % 2 ELSE 0]

\* WriteBuffer::push_bits(bits, count): appends the low count bits of a usize
push_bits(dst, bits, cnt) == dst \o [i \in 1..cnt |-> bits[i]]

\* WriteBuffer::push_non_fit_bits(bytes, count): appends the low count bits
\* of a value given as its bytes, least significant first
push_non_fit_bits(dst, bs, cnt) ==
    LET word == from_le(bs) IN dst \o [i \in 1..cnt |-> word[i]]

\* WriteBuffer::reserve(count): count zero bits are appended; the head
\* cursor writes into them, the tail cursor appends after them
reserve(dst, cnt) == dst \o Zeros(cnt)

\* a write through the head cursor: its bits land at offset p
head_write(dst, p, bits) ==
    [i \in 1..Len(dst) |->
        IF i > p /\ i <= p + Len(bits) THEN bits[i - p] ELSE dst[i]]

Err(kind, a, b) == [kind |-> kind, a |-> a, b |-> b]

\* BitReadStream::bits_left
bits_left(rs) == Len(rs.bits) - rs.pos

\* BitReadStream::read_int::<T>(count), T unsigned of tbits bits
stream_read_int(rs, tbits, cnt) ==
    IF cnt > tbits
    THEN [ret |-> Err("TooManyBits", cnt, tbits), val |-> <<>>, rs |-> rs]
    ELSE IF cnt > bits_left(rs)
    THEN [ret |-> Err("NotEnoughData", cnt, bits_left(rs)), val |-> <<>>, rs |-> rs]
    ELSE [ret |-> NoError,
          val |-> [i \in 1..tbits |-> IF i <= cnt THEN rs.bits[rs.pos + i] ELSE 0],
          rs |-> [bits |-> rs.bits, pos |-> rs.pos + cnt]]

-----------------------------------------------------------------------------
(* src/src/writestream.rs: BitWriteStream *)

USIZE_BITS == usize_size * 8

type_bit_size(t) ==
    CASE t \in {"u8", "i8"} -> 8
      [] t \in {"u16", "i16"} -> 16
      [] t \in {"u32", "i32"} -> 32
      [] OTHER -> USIZE_BITS

\* write_int with the bits pushed before the width check
write_int_push_first(dst, t, v, cnt) ==
    IF type_bit_size(t) < cnt
    THEN [ret |-> Err("TooManyBits", cnt, type_bit_size(t)),
          bits |-> dst \o [i \in 1..cnt |-> IF i <= Len(v) THEN v[i] ELSE 0]]
    ELSE [ret |-> NoError, bits |-> dst \o [i \in 1..cnt |-> v[i]]]

\* BitWriteStream::write_int::<T>(value, count)
write_int(dst, t, v, cnt) ==
    IF type_bit_size(t) < cnt
    THEN [ret |-> Err("TooManyBits", cnt, type_bit_size(t)), bits |-> dst]
    ELSE IF type_bit_size(t) < USIZE_BITS
    THEN [ret |-> NoError, bits |-> push_bits(dst, into_usize_unchecked(t, v), cnt)]
    ELSE [ret |-> NoError, bits |-> push_non_fit_bits(dst, into_bytes(v), cnt)]

\* `chunk as usize` of a byte
ByteAsUsize(b) == [i \in 1..USIZE_BITS |-> IF i <= 8 THEN ByteBit(b, i - 1) ELSE 0]

\* BitWriteStream::write_bytes
RECURSIVE write_bytes(_, _)
write_bytes(dst, bs) ==
    IF bs = <<>> THEN dst
    ELSE write_bytes(push_bits(dst, ByteAsUsize(Head(bs)), 8), Tail(bs))

\* for _ in 0..n { self.push_bits(0, 8) }
RECURSIVE push_zero_bytes(_, _)
push_zero_bytes(dst, n) ==
    IF n <= 0 THEN dst ELSE push_zero_bytes(push_bits(dst, UsizeOf(0), 8), n - 1)

\* BitWriteStream::write_string(string, length); length is [some, n]
write_string(dst, str, length) ==
    IF length.some
    THEN IF length.n < Len(str)
         THEN [ret |-> Err("StringToLong", Len(str), length.n), bits |-> dst]
         ELSE [ret |-> NoError,
               bits |-> push_zero_bytes(write_bytes(dst, str), length.n - Len(str))]
    ELSE [ret |-> NoError, bits |-> push_bits(write_bytes(dst, str), UsizeOf(0), 8)]

\* while bits.bits_left() > 32 { chunk = bits.read::<u32>()?; push_bits(chunk, 32) }
RECURSIVE write_bits_chunks(_, _)
write_bits_chunks(dst, src) ==
    IF bits_left(src) > 32
    THEN LET chunk == stream_read_int(src, 32, 32)
         IN  IF chunk.ret.kind # "Ok"
             THEN [ret |-> chunk.ret, bits |-> dst, src |-> src]
             ELSE write_bits_chunks(
                      push_bits(dst, AsWidth(chunk.val, USIZE_BITS), 32), chunk.rs)
    ELSE [ret |-> NoError, bits |-> dst, src |-> src]

\* BitWriteStream::write_bits(bits)
write_bits(dst, source) ==
    LET bit_offset == Len(dst) % 8
        start == stream_read_int(source, 8, 8 - bit_offset)
    IN  IF bit_offset > 0 /\ start.ret.kind # "Ok"
        THEN [ret |-> start.ret, bits |-> dst]
        ELSE LET dst1 == IF bit_offset > 0
                         THEN push_bits(dst, AsWidth(start.val, USIZE_BITS), 8 - bit_offset)
                         ELSE dst
                 src1 == IF bit_offset > 0 THEN start.rs ELSE source
                 mid == write_bits_chunks(dst1, src1)
             IN  IF mid.ret.kind # "Ok" THEN [ret |-> mid.ret, bits |-> mid.bits]
                 ELSE IF bits_left(mid.src) > 0
                 THEN LET end_bits == bits_left(mid.src)
                          end == stream_read_int(mid.src, 32, end_bits)
                      IN  IF end.ret.kind # "Ok"
                          THEN [ret |-> end.ret, bits |-> mid.bits]
                          ELSE [ret |-> NoError,
                                bits |-> push_bits(mid.bits,
                                             AsWidth(end.val, USIZE_BITS), end_bits)]
                 ELSE [ret |-> NoError, bits |-> mid.bits]

\* body_fn(&mut tail): the closures of the model make a sequence of
\* tail.write_int::<u8>(v, c)? calls; the first failure is returned
RECURSIVE body_fn(_, _)
body_fn(dst, body) ==
    IF body = <<>> THEN [ret |-> NoError, bits |-> dst]
    ELSE LET w == write_int(dst, "u8", Head(body).v, Head(body).c)
         IN  IF w.ret.kind # "Ok" THEN w ELSE body_fn(w.bits, Tail(body))

\* BitWriteSized for usize: write_sized(&value, len) is write_int(value, len)
write_sized_usize(n, len) == write_int(<<>>, "usize", UsizeOf(n), len)

\* the length taken to be the tail's final bit_len
section_length_end_only(start, end) == end

\* the length reserve_length hands to head.write_sized
section_length(start, end) == end - start

-----------------------------------------------------------------------------
(* The write stream's calls *)

\* the values of type t that the model writes
Values(t) == { from_le(Buffer(seed, type_bit_size(t) \div 8)) : seed \in 0..MaxValueSeed }

\* the strings written: "", "h", "hi"
Strings == {<<>>, <<104>>, <<104, 105>>}

Lengths == {[some |-> FALSE, n |-> 0]} \cup {[some |-> TRUE, n |-> n] : n \in {0, 1, 2, 5}}

\* the bits of a slice, first bit first
BufBits(buf) == [i \in 1..(8 * Len(buf)) |-> BufBit(buf, i - 1)]

\* read streams over a buffer of MaxSrcBytes bytes, at any position
Sources ==
    { [bits |-> BufBits(Buffer(seed, MaxSrcBytes)), pos |-> q] :
        seed \in 0..MaxSeed, q \in 0..(8 * MaxSrcBytes) }

BodyCounts == {4, 8, 9}

\* the closures: up to MaxBodyOps calls tail.write_int::<u8>(v, c)?
Bodies ==
    UNION { { [k \in 1..n |-> [v |-> from_le(Buffer(k, 1)), c |-> cs[k]]] :
                cs \in [1..n -> BodyCounts] } : n \in 0..MaxBodyOps }

LengthBitSizes == {0, 2, 4, 8, USIZE_BITS, USIZE_BITS + 1}

\* BitWriteStream::new over an empty Vec
WriteInit ==
    /\ usize_size \in {4, 8}
    /\ debug_assertions \in BOOLEAN
    /\ bytes = <<>>
    /\ byte_len = 0
    /\ pc = "idle"
    /\ op = "none"
    /\ position = 0
    /\ count = 0
    /\ result = Panic
    /\ loaded = {}
    /\ w_bits = <<>>
    /\ w_pc = "new"
    /\ w_op = "none"
    /\ w_arg = <<>>
    /\ w_ret = NoError
    /\ w_old = <<>>
    /\ rl = <<>>
    /\ VecIdle

WriteCall(name, arg, r, next) ==
    /\ w_op' = name
    /\ w_arg' = arg
    /\ w_ret' = r.ret
    /\ w_bits' = r.bits
    /\ w_old' = w_bits
    /\ w_pc' = next
    /\ UNCHANGED <<rl, rvars, vvars>>

\* the first call on a stream: write_int::<u8>(v, c) with c < 8, after which
\* bit_len % 8 is any of 0..7
WritePrefix ==
    /\ w_pc = "new"
    /\ \E v \in Values("u8"), c \in 0..7 :
          WriteCall("write_int", [t |-> "u8", v |-> v, c |-> c],
                    write_int(w_bits, "u8", v, c), "idle")

WriteInt ==
    /\ w_pc = "idle"
    /\ \E t \in IntTypes :
          \E v \in Values(t), c \in 0..(type_bit_size(t) + 1) :
              WriteCall("write_int", [t |-> t, v |-> v, c |-> c],
                        write_int(w_bits, t, v, c), "done")

WriteString ==
    /\ w_pc = "idle"
    /\ \E str \in Strings, length \in Lengths :
          WriteCall("write_string", [string |-> str, length |-> length],
                    write_string(w_bits, str, length), "done")

WriteBits ==
    /\ w_pc = "idle"
    /\ \E source \in Sources :
          WriteCall("write_bits", source, write_bits(w_bits, source), "done")

\* reserve_length, line 304-305: let (head, tail) = self.reserve(..);
\* let start = tail.bit_len()
ReserveLengthReserve ==
    /\ w_pc = "idle"
    /\ \E length_bit_size \in LengthBitSizes, body \in Bodies :
          /\ w_bits' = reserve(w_bits, length_bit_size)
          /\ rl' = [p |-> Len(w_bits),
                    start |-> Len(w_bits) + length_bit_size,
                    end |-> 0]
          /\ w_arg' = [length_bit_size |-> length_bit_size, body |-> body]
    /\ w_op' = "reserve_length"
    /\ w_old' = w_bits
    /\ w_ret' = NoError
    /\ w_pc' = "rl_body"
    /\ UNCHANGED <<rvars, vvars>>

\* reserve_length, line 306-307: body_fn(&mut tail)?; let end = tail.bit_len()
ReserveLengthBody ==
    /\ w_pc = "rl_body"
    /\ LET r == body_fn(w_bits, w_arg.body)
       IN  /\ w_bits' = r.bits
           /\ w_ret' = r.ret
           /\ IF r.ret.kind # "Ok"
              THEN w_pc' = "done" /\ rl' = rl
              ELSE w_pc' = "rl_head" /\ rl' = [rl EXCEPT !.end = Len(r.bits)]
    /\ UNCHANGED <<w_op, w_arg, w_old, rvars, vvars>>

\* reserve_length, line 308: head.write_sized(&(end - start), length_bit_size)
ReserveLengthHead ==
    /\ w_pc = "rl_head"
    /\ LET r == write_sized_usize(section_length(rl.start, rl.end),
                                  w_arg.length_bit_size)
       IN  /\ w_ret' = r.ret
           /\ w_bits' = IF r.ret.kind = "Ok"
                        THEN head_write(w_bits, rl.p, r.bits) ELSE w_bits
    /\ w_pc' = "done"
    /\ UNCHANGED <<w_op, w_arg, w_old, rl, rvars, vvars>>

WriteNext ==
    \/ WritePrefix
    \/ WriteInt
    \/ WriteString
    \/ WriteBits
    \/ ReserveLengthReserve
    \/ ReserveLengthBody
    \/ ReserveLengthHead

SpecWrite == WriteInit /\ [][WriteNext]_vars

-----------------------------------------------------------------------------
(* Reading back what write_int wrote *)

\* the Vec<u8> under the stream: bit_len bits in (bit_len + 7) / 8 bytes, the
\* bits past bit_len in the last byte zero
DataBytes(bits) ==
    [k \in 1..((Len(bits) + 7) \div 8) |->
        LET b(j) == IF 8 * (k - 1) + j + 1 <= Len(bits)
                    THEN bits[8 * (k - 1) + j + 1] ELSE 0
        IN  b(0) + 2 * b(1) + 4 * b(2) + 8 * b(3)
              + 16 * b(4) + 32 * b(5) + 64 * b(6) + 128 * b(7)]

ReadAs(t, buf, pos, cnt) ==
    CASE t = "u8" -> read_u8(usize_size, buf, debug_assertions, pos, cnt)
      [] t = "i8" -> read_i8(usize_size, buf, debug_assertions, pos, cnt)
      [] t = "u16" -> read_u16(usize_size, buf, debug_assertions, pos, cnt)
      [] t = "i16" -> read_i16(usize_size, buf, debug_assertions, pos, cnt)
      [] t = "u32" -> read_u32(usize_size, buf, debug_assertions, pos, cnt)
      [] t = "i32" -> read_i32(usize_size, buf, debug_assertions, pos, cnt)
      [] OTHER -> read_usize(usize_size, buf, debug_assertions, pos, cnt)

\* The written bytes, followed by a word of zero padding, are handed to
\* BitBuffer::from_padded_slice and the integer is read at the offset it was
\* written at, with the count and the type it was written with.
ReadBack ==
    /\ w_pc = "done"
    /\ w_op = "write_int"
    /\ w_ret.kind = "Ok"
    /\ pc = "idle"
    /\ LET data == DataBytes(w_bits)
           padded == data \o [k \in 1..usize_size |-> 0]
           r == ReadAs(w_arg.t, padded, Len(w_old), w_arg.c)
       IN  /\ bytes' = padded
           /\ byte_len' = Len(data)
           /\ result' = [ok |-> r.ok, val |-> r.val]
           /\ loaded' = r.idx
    /\ op' = "read_" \o w_arg.t
    /\ position' = Len(w_old)
    /\ count' = w_arg.c
    /\ pc' = "done"
    /\ UNCHANGED <<usize_size, debug_assertions, wvars, vvars>>

RoundTripNext ==
    \/ WritePrefix
    \/ WriteInt
    \/ ReadBack

SpecRoundTrip == WriteInit /\ [][RoundTripNext]_vars

-----------------------------------------------------------------------------
(* Claims about the write stream *)

\* v masked to c bits, and sign extended from bit c - 1 for a signed type
MaskedValue(t, v, c) ==
    [i \in 1..Len(v) |->
        IF i <= c THEN v[i] ELSE IF IsSigned(t) /\ c >= 1 THEN v[c] ELSE 0]

\* C3: write_int(v, c) with 0 <= c <= w at any bit alignment, read back at
\* the same offset with c bits and the same type, gives v masked to c bits
\* (sign extended from bit c - 1 for a signed type).
C3_WriteReadRoundTrip ==
    (w_op = "write_int" /\ w_pc = "done" /\ pc = "done")
        => /\ result.ok
           /\ result.val = MaskedValue(w_arg.t, w_arg.v, w_arg.c)

\* the unread bits of a read stream
Unread(rs) == [i \in 1..(Len(rs.bits) - rs.pos) |-> rs.bits[rs.pos + i]]

\* C4: write_bits(source) returns Ok and appends exactly the N unread bits
\* of the source, in order, whatever N >= 0 and the alignment of the
\* destination are.
C4_SpliceAppendsUnread ==
    (w_pc = "done" /\ w_op = "write_bits")
        => /\ w_ret.kind = "Ok"
           /\ Len(w_bits) = Len(w_old) + bits_left(w_arg)
           /\ w_bits = w_old \o Unread(w_arg)

\* what a body of the model is to write: the low c bits of each v in turn
RECURSIVE BodyWritten(_)
BodyWritten(body) ==
    IF body = <<>> THEN <<>>
    ELSE [i \in 1..Head(body).c |-> Head(body).v[i]] \o BodyWritten(Tail(body))

BodySucceeds(body) == \A k \in 1..Len(body) : body[k].c <= 8

RECURSIVE BodyLength(_)
BodyLength(body) ==
    IF body = <<>> THEN 0 ELSE Head(body).c + BodyLength(Tail(body))

\* L < 2^length_bit_size, for the lengths L < 2^30 of the model
Fits(L, length_bit_size) == length_bit_size >= 30 \/ L < 2 ^ length_bit_size

\* bits a+1 .. b of the destination
Span(bits, a, b) == [i \in 1..(b - a) |-> bits[a + i]]

LengthPrefixPatched ==
    LET p == Len(w_old)
        n == w_arg.length_bit_size
        L == BodyLength(w_arg.body)
    IN  /\ w_ret.kind = "Ok"
        /\ Len(w_bits) = p + n + L
        /\ Span(w_bits, p, p + n) = Span(UsizeOf(L), 0, n)
        /\ Span(w_bits, p + n, p + n + L) = BodyWritten(w_arg.body)
        /\ Span(w_bits, 0, p) = w_old

\* C5 as claimed: whenever body_fn succeeds after writing L < 2^length_bit_size
\* bits, reserve_length returns Ok with L in the head, the body after it and
\* the bits before p unchanged.
C5_LengthPrefixPatchedAnyWidth ==
    (w_pc = "done" /\ w_op = "reserve_length" /\ BodySucceeds(w_arg.body)
        /\ Fits(BodyLength(w_arg.body), w_arg.length_bit_size))
        => LengthPrefixPatched

\* C5 as amended: the same, for length_bit_size no larger than the bit width
\* of usize; and while body_fn has not returned, and until the head is
\* written, the reserved span holds zeros.
C5_LengthPrefixPatched ==
    /\ (w_pc = "done" /\ w_op = "reserve_length" /\ BodySucceeds(w_arg.body)
          /\ Fits(BodyLength(w_arg.body), w_arg.length_bit_size)
          /\ w_arg.length_bit_size <= USIZE_BITS)
        => LengthPrefixPatched
    /\ (w_pc \in {"rl_body", "rl_head"})
        => /\ Span(w_bits, rl.p, rl.p + w_arg.length_bit_size)
                = Zeros(w_arg.length_bit_size)
           /\ Span(w_bits, 0, rl.p) = w_old
    /\ (w_pc = "rl_head")
        => Span(w_bits, rl.start, Len(w_bits)) = BodyWritten(w_arg.body)

\* C5 witness: an 8-bit length field reserved at an unaligned offset, a body
\* of 20 bits, and the head patched to 20.
C5_Witness ==
    /\ w_pc = "done" /\ w_op = "reserve_length" /\ w_ret.kind = "Ok"
    /\ Len(w_old) % 8 = 3
    /\ w_arg.length_bit_size = 8
    /\ BodyLength(w_arg.body) = 20
    /\ Span(w_bits, Len(w_old), Len(w_old) + 8) = <<0, 0, 1, 0, 1, 0, 0, 0>>

\* C6: reserve_length returns an error whenever the L bits body_fn wrote do
\* not fit in length_bit_size bits.
C6_OverlongLengthRejected ==
    (w_pc = "done" /\ w_op = "reserve_length" /\ BodySucceeds(w_arg.body)
        /\ ~Fits(BodyLength(w_arg.body), w_arg.length_bit_size))
        => w_ret.kind # "Ok"

\* C7 as claimed: whenever a write-stream call returns an error, the stream's
\* bit_len and written bytes are those before the call.
C7_FailedWriteLeavesStream ==
    (w_pc = "done" /\ w_ret.kind # "Ok") => w_bits = w_old

\* C7 as amended: a failed write_int (TooManyBits{count, type width}), a failed
\* write_string (StringToLong{string length, requested length}) and a failed
\* write_bits leave the stream as it was; a failed reserve_length leaves the
\* bits before its starting offset as they were and the stream longer by the
\* reserved length_bit_size bits and by what body_fn wrote before it failed.
C7_FailedWriteEffect ==
    (w_pc = "done" /\ w_ret.kind # "Ok")
        => /\ w_op = "write_int"
                => /\ w_ret = Err("TooManyBits", w_arg.c, type_bit_size(w_arg.t))
                   /\ w_arg.c > type_bit_size(w_arg.t)
                   /\ w_bits = w_old
           /\ w_op = "write_string"
                => /\ w_ret = Err("StringToLong", Len(w_arg.string), w_arg.length.n)
                   /\ w_bits = w_old
           /\ w_op = "write_bits" => w_bits = w_old
           /\ w_op = "reserve_length"
                => /\ Span(w_bits, 0, Len(w_old)) = w_old
                   /\ Len(w_bits) >= Len(w_old) + w_arg.length_bit_size

\* C7 witness: a write_int that asks for more bits than its type has, on a
\* stream that already holds bits.
C7_Witness ==
    /\ w_pc = "done" /\ w_op = "write_int" /\ w_ret.kind = "TooManyBits"
    /\ w_arg.t = "i16" /\ w_arg.c = 17
    /\ Len(w_old) = 5

-----------------------------------------------------------------------------
(* src/src/read.rs: BitRead for the element types, BitReadSized for Vec<T> *)

\* BitStream::read_bool (modelled from the specification, section 4.2):
\* exactly one bit, 0/1 mapped to false/true
read_bool(rs) ==
    LET r == stream_read_int(rs, 8, 1)
    IN  IF r.ret.kind # "Ok" THEN r
        ELSE [ret |-> NoError, val |-> (r.val[1] = 1), rs |-> r.rs]

\* impl_read_int!(u8, 8): stream.read_int::<u8>(8)
read_int_u8(rs) == stream_read_int(rs, 8, 8)

\* BitRead for Option<T>, T = u8:
\*   if stream.read()? { Ok(Some(stream.read()?)) } else { Ok(None) }
read_option_u8(rs) ==
    LET flag == read_bool(rs)
    IN  IF flag.ret.kind # "Ok" THEN flag
        ELSE IF flag.val
        THEN LET inner == read_int_u8(flag.rs)
             IN  IF inner.ret.kind # "Ok" THEN inner
                 ELSE [ret |-> NoError,
                       val |-> [some |-> TRUE, val |-> inner.val],
                       rs |-> inner.rs]
        ELSE [ret |-> NoError, val |-> [some |-> FALSE, val |-> <<>>], rs |-> flag.rs]

ElemTypes == {"u8", "bool", "Option<u8>"}

\* stream.read::<T>()
stream_read(rs, T) ==
    CASE T = "u8" -> read_int_u8(rs)
      [] T = "bool" -> read_bool(rs)
      [] OTHER -> read_option_u8(rs)

VecInit ==
    /\ usize_size \in {4, 8}
    /\ debug_assertions \in BOOLEAN
    /\ bytes = <<>>
    /\ byte_len = 0
    /\ pc = "off"
    /\ op = "none"
    /\ position = 0
    /\ count = 0
    /\ result = Panic
    /\ loaded = {}
    /\ WriteIdle
    /\ \E seed \in 0..MaxSeed, q \in 0..(8 * MaxVecBytes) :
          stream = [bits |-> BufBits(Buffer(seed, MaxVecBytes)), pos |-> q]
    /\ v_pc = "idle"
    /\ v_arg = <<>>
    /\ v_vec = <<>>
    /\ v_i = 0
    /\ v_ret = NoError
    /\ v_reads = 0
    /\ v_start = 0
    /\ v_sub = 0

\* <Vec<T> as BitReadSized>::read(stream, size) is entered:
\* let mut vec = Vec::with_capacity(size)
VecReadCall ==
    /\ v_pc = "idle"
    /\ \E size \in 0..MaxVecSize, T \in ElemTypes : v_arg' = [size |-> size, T |-> T]
    /\ v_vec' = <<>>
    /\ v_i' = 0
    /\ v_pc' = "loop"
    /\ v_start' = stream.pos
    /\ v_sub' = stream.pos
    /\ UNCHANGED <<stream, v_ret, v_reads, rvars, wvars>>

\* an iteration that goes on after a failed element read
VecReadIterSkipsError ==
    /\ v_pc = "loop"
    /\ v_i < v_arg.size
    /\ LET r == stream_read(stream, v_arg.T)
       IN  /\ stream' = r.rs
           /\ v_sub' = r.rs.pos
           /\ v_vec' = IF r.ret.kind # "Ok" THEN v_vec ELSE Append(v_vec, r.val)
           /\ v_ret' = v_ret
           /\ v_pc' = "loop"
    /\ v_i' = v_i + 1
    /\ v_reads' = v_reads + 1
    /\ UNCHANGED <<v_arg, v_start, rvars, wvars>>

\* one iteration of `for _ in 0..size { vec.push(stream.read()?) }`
VecReadIter ==
    /\ v_pc = "loop"
    /\ v_i < v_arg.size
    /\ LET r == stream_read(stream, v_arg.T)
       IN  /\ stream' = r.rs
           /\ v_sub' = r.rs.pos
           /\ IF r.ret.kind # "Ok"
              THEN /\ v_pc' = "err"
                   /\ v_ret' = r.ret
                   /\ UNCHANGED <<v_vec, v_i>>
              ELSE /\ v_vec' = Append(v_vec, r.val)
                   /\ v_i' = v_i + 1
                   /\ UNCHANGED <<v_pc, v_ret>>
    /\ v_reads' = v_reads + 1
    /\ UNCHANGED <<v_arg, v_start, rvars, wvars>>

\* the loop is over: Ok(vec)
VecReadReturn ==
    /\ v_pc = "loop"
    /\ v_i >= v_arg.size
    /\ v_pc' = "ok"
    /\ UNCHANGED <<stream, v_arg, v_vec, v_i, v_ret, v_reads, v_start, v_sub,
                   rvars, wvars>>

VecNext ==
    \/ VecReadCall
    \/ VecReadIter
    \/ VecReadReturn

SpecVec == VecInit /\ [][VecNext]_vars

\* the bits an element was read from
ElemWidth(T, e) ==
    CASE T = "u8" -> 8
      [] T = "bool" -> 1
      [] OTHER -> IF e.some THEN 9 ELSE 1

RECURSIVE SumWidths(_, _)
SumWidths(T, vec) ==
    IF vec = <<>> THEN 0 ELSE ElemWidth(T, Head(vec)) + SumWidths(T, Tail(vec))

\* C9: reading Vec<T> with count size makes at most size element reads; if
\* all succeed, Ok holds exactly size elements and the position has advanced
\* by the sum of the element reads; if the k-th fails, its error is returned
\* at once, after k reads and no more, and the position is where the failing
\* element read left it, the advance of the k - 1 earlier reads kept.
C9_VecReadStopsAtFirstFailure ==
    /\ v_reads <= (IF v_pc = "idle" THEN 0 ELSE v_arg.size)
    /\ v_pc \in {"loop", "ok", "err"}
         => /\ v_reads = Len(v_vec) + (IF v_pc = "err" THEN 1 ELSE 0)
            /\ stream.pos = v_sub
    /\ v_pc = "ok"
         => /\ Len(v_vec) = v_arg.size
            /\ stream.pos = v_start + SumWidths(v_arg.T, v_vec)
    /\ v_pc = "err"
         => /\ v_ret.kind = "NotEnoughData"
            /\ Len(v_vec) < v_arg.size
            /\ stream.pos >= v_start + SumWidths(v_arg.T, v_vec)
            /\ stream.pos - (v_start + SumWidths(v_arg.T, v_vec))
                  = (IF v_arg.T = "Option<u8>" /\ v_ret.a = 8 THEN 1 ELSE 0)

\* C9 witness: the third Option<u8> fails in its inner u8 after its flag was
\* read: two elements were read, and the position is one bit past them.
C9_Witness ==
    /\ v_pc = "err"
    /\ v_arg.T = "Option<u8>"
    /\ Len(v_vec) = 2
    /\ v_reads = 3
    /\ stream.pos = v_start + SumWidths(v_arg.T, v_vec) + 1

====
